---- MODULE Spec2Model ----
(***************************************************************************)
(* A model of lwan's coroutine runtime (lwan-coro.c) and of its response   *)
(* framer and header assembly (lwan-response.c).                           *)
(*                                                                         *)
(* The coroutine part follows one coroutine: its deferred-action array,    *)
(* its saved context, yield_value and ended, and the control transfers     *)
(* between the I/O thread (the caller of coro_resume) and the handler.     *)
(* A handler is any program of coro_yield calls and a final return; the    *)
(* deferred callbacks are observed through the log of their calls.         *)
(***************************************************************************)
EXTENDS Integers, Sequences, FiniteSets, TLC

(* ------------------------------ bounds -------------------------------- *)
\* registrations (coro_defer_any calls) followed in one behaviour
MaxReg == 3
\* yield, resume and return values range over 0..MaxVal
MaxVal == 1
\* coro_yield calls one handler activation makes before it returns
MaxYield == 2
\* generation snapshots a client holds at once
MaxGens == 2

\* the (function, data) pairs coro_new and coro_reset are given
Programs == {<<"h1", "d1">>, <<"h2", "d2">>}
NULL == "NULL"

(* ------------------------- coroutine: state --------------------------- *)
VARIABLES
    defer,        \* coro->defer: the deferred-action array, elements 1..Len
    yield_value,  \* coro->yield_value
    ended,        \* coro->ended
    context,      \* coro->context: where the next coro_resume continues
    running,      \* control is inside the coroutine (between swapcontexts)
    frame,        \* the handler activation that is running
    freed,        \* coro_free has released the coroutine
    fault,        \* "none", or how the process left defined behaviour
    gens,         \* the values coro_deferred_get_generation has returned
    nreg,         \* number of coro_defer_any calls so far (names the data)
    registered,   \* every action coro_defer_any stored, as it was given
    log,          \* the deferred actions called so far, in call order
    cap,          \* generation -> the array when it was captured, while
                  \* no rollback went below it
    op,           \* the last operation, its arguments and the state
                  \* (section 4.1) it found the coroutine in
    primed,       \* the handler and data of the last coro_new/coro_reset,
                  \* and whether a coro_resume has entered since
    yield_ret,    \* what the last coro_yield returned inside the handler
    resume_ret,   \* what the last coro_resume returned to its caller
    budget        \* how many registrations, yields and values a behaviour
                  \* of the specification at hand follows

coro_vars == <<defer, yield_value, ended, context, running, frame,
               freed, fault, gens, nreg, registered, log, cap, op, primed,
               yield_ret, resume_ret, budget>>

(* ---------------------- header assembly: state ------------------------ *)
VARIABLES
    request,          \* the Response Context header assembly reads
    headers_buf_size, \* the size of the caller's headers[] buffer
    header            \* what lwan_prepare_response_header did, once called

hdr_vars == <<request, headers_buf_size, header>>

(* ---------------------- response framer: state ------------------------ *)
VARIABLES
    io,     \* what the request handed to the I/O layer so far, in order:
            \* its lwan_send and lwan_writev calls and its coro_yield calls
    calls,  \* the framer calls made on the request so far, each with what
            \* happened inside it
    crash,  \* "none", or how the process left defined behaviour
    chunk   \* a chunk length on its way through the size formatting of lwan_response_send_chunk

resp_vars == <<io, calls, crash, chunk>>

vars == <<coro_vars, hdr_vars, resp_vars>>

\* const struct lwan_key_value *additional_headers: a null pointer, or an
\* array of (key, value) ended by a null key.
NullHeaders == [null |-> TRUE, list |-> <<>>]
HeaderList(list) == [null |-> FALSE, list |-> list]

NoRequest ==
    [status |-> 0, http10 |-> FALSE, keep_alive |-> FALSE, chunked |-> FALSE,
     no_content_length |-> FALSE, cors |-> FALSE, callback |-> FALSE,
     content_length |-> 0, body_len |-> 0, mime_type |-> "",
     headers |-> NullHeaders]

\* no chunk length is being formatted
NoChunk ==
    [state |-> "none", size_t_bytes |-> 0, length |-> <<>>,
     converted_len |-> 0, abort |-> FALSE]

\* header assembly has not been called
NoHeader ==
    [state |-> "none", ret |-> 0, lines |-> <<>>, max_written |-> -1,
     fault |-> "none"]

NoFrame == [func |-> "none", data |-> "none", pos |-> 0, via |-> "none"]
NoContext == [rip |-> "none", func |-> "none", data |-> "none", pos |-> 0]
\* The states of section 4.1's state machine, read off the coroutine.
coro_state ==
    IF running THEN "running"
    ELSE IF ended THEN "ended"
    ELSE IF context.rip = "coro_yield" THEN "suspended"
    ELSE "fresh"

Op(name, gen, val) ==
    [name |-> name, gen |-> gen, val |-> val, from |-> coro_state]

\* struct coro_defer
coro_defer(func, data1, data2) == [func |-> func, data1 |-> data1, data2 |-> data2]

\* The callbacks a client registers. "free" is what the allocation helpers
\* defer; "cb" and "cb2" are a client's unary and binary callbacks; "nest"
\* is a client callback that itself calls coro_defer(coro, cb, p) when run.
ClientFuncs == {"cb", "nest"}

Restrict(f, S) == [x \in S |-> f[x]]

RECURSIVE Reverse(_)
Reverse(s) == IF s = <<>> THEN <<>> ELSE Append(Reverse(Tail(s)), Head(s))

(* ----------------------- coro_deferred_run ---------------------------- *)
\* The loop of coro_deferred_run: i runs from array->elements down while
\* i != generation, calling defers[i - 1].  A callback that registers a new
\* action appends it at array->elements, above the loop's i.  With
\* generation > elements, i reaches 0 without meeting generation and the
\* loop reads defers[-1].
RECURSIVE deferred_loop_ascending(_, _, _, _, _)
deferred_loop_ascending(arr, i, generation, ran, nid) ==
    IF i = generation
    THEN [arr |-> arr, ran |-> ran, nid |-> nid, fault |-> "none"]
    ELSE IF i = 0
    THEN [arr |-> arr, ran |-> ran, nid |-> nid, fault |-> "oob_read"]
    ELSE LET d == arr[i]
             reg == d.func = "nest" /\ nid < budget.reg
             arr2 == IF reg THEN Append(arr, coro_defer("cb", nid + 1, NULL))
                     ELSE arr
         IN deferred_loop_ascending(arr2, i - 1, generation, <<d>> \o ran,
                                    IF reg THEN nid + 1 ELSE nid)

RECURSIVE deferred_loop(_, _, _, _, _)
deferred_loop(arr, i, generation, ran, nid) ==
    IF i = generation
    THEN [arr |-> arr, ran |-> ran, nid |-> nid, fault |-> "none"]
    ELSE IF i = 0
    THEN [arr |-> arr, ran |-> ran, nid |-> nid, fault |-> "oob_read"]
    ELSE LET d == arr[i]
             reg == d.func = "nest" /\ nid < budget.reg
             arr2 == IF reg THEN Append(arr, coro_defer("cb", nid + 1, NULL))
                     ELSE arr
         IN deferred_loop(arr2, i - 1, generation, Append(ran, d),
                          IF reg THEN nid + 1 ELSE nid)

\* The whole of coro_deferred_run: the loop, then array->elements =
\* generation.  ran: the callbacks called, in call order; added: the data1
\* of what callbacks registered meanwhile.
coro_deferred_run_to_zero(arr, generation, nid) ==
    LET r == deferred_loop(arr, Len(arr), generation, <<>>, nid)
    IN [defer |-> IF r.fault = "none" THEN <<>> ELSE r.arr,
        ran |-> r.ran, nid |-> r.nid, fault |-> r.fault,
        added |-> {coro_defer("cb", id, NULL) : id \in (nid + 1)..r.nid}]

coro_deferred_run(arr, generation, nid) ==
    LET r == deferred_loop(arr, Len(arr), generation, <<>>, nid)
    IN [defer |-> IF r.fault = "none" THEN SubSeq(r.arr, 1, generation)
                  ELSE r.arr,
        ran |-> r.ran, nid |-> r.nid, fault |-> r.fault,
        added |-> {coro_defer("cb", id, NULL) : id \in (nid + 1)..r.nid}]

\* size_t coro_deferred_get_generation(coro)
coro_deferred_get_generation(arr) == Len(arr)

(* ----------------------------- Init ----------------------------------- *)
\* coro_reset's priming of the saved context: coro_entry_point(coro, func, data)
entry_context(func, data) ==
    [rip |-> "coro_entry_point", func |-> func, data |-> data, pos |-> 0]

\* The state coro_new(switcher, function, data) returns.
InitCoro(b) ==
    /\ budget = b
    /\ defer = <<>>
    /\ yield_value = 0
    /\ ended = FALSE
    /\ \E p \in Programs :
           /\ context = entry_context(p[1], p[2])
           /\ primed = [func |-> p[1], data |-> p[2], resumed |-> FALSE]
    /\ running = FALSE
    /\ frame = NoFrame
    /\ freed = FALSE
    /\ fault = "none"
    /\ gens = {}
    /\ nreg = 0
    /\ registered = {}
    /\ log = <<>>
    /\ cap = [g \in {} |-> <<>>]
    /\ op = [name |-> "coro_new", gen |-> 0, val |-> 0, from |-> "none"]
    /\ yield_ret = 0
    /\ resume_ret = 0
    /\ request = NoRequest
    /\ headers_buf_size = 0
    /\ header = NoHeader
    /\ io = <<>>
    /\ calls = <<>>
    /\ crash = "none"
    /\ chunk = NoChunk

\* The deferred-action specification follows MaxReg registrations and a
\* handler of one yield; the control-transfer specification follows handlers
\* of MaxYield yields exchanging the values 0..MaxVal, and one registration.
DeferBudget == [reg |-> MaxReg, yield |-> 1, val |-> 0]
ControlBudget == [reg |-> 1, yield |-> MaxYield, val |-> MaxVal]

\* The coroutine exists and the process is in a defined state.
Alive == ~freed /\ fault = "none"

(* --------------------- registering deferred actions ------------------- *)
coro_defer_any_storing_anyway(arr, func, data1, data2, append_ok) ==
    Append(arr, coro_defer(func, data1, data2))

\* coro_defer_any: coro_defer_array_append, then the three stores; a failed
\* append logs and returns with the array as it was.
coro_defer_any(arr, func, data1, data2, append_ok) ==
    IF append_ok THEN Append(arr, coro_defer(func, data1, data2)) ELSE arr

DeferStep(name, func, data2, append_ok) ==
    /\ Alive
    /\ nreg < budget.reg
    /\ defer' = coro_defer_any(defer, func, nreg + 1, data2, append_ok)
    /\ nreg' = nreg + 1
    /\ registered' = IF append_ok
                      THEN registered \cup {coro_defer(func, nreg + 1, data2)}
                      ELSE registered
    /\ op' = Op(name, 0, nreg + 1)
    /\ UNCHANGED <<yield_value, ended, context, running, frame, freed,
                   fault, gens, log, cap, primed, yield_ret, resume_ret, budget,
                   hdr_vars, resp_vars>>

\* coro_defer(coro, func, data)
CoroDefer ==
    \E func \in ClientFuncs, append_ok \in BOOLEAN :
        DeferStep("coro_defer", func, NULL, append_ok)

\* coro_defer2(coro, func, data1, data2)
CoroDefer2 ==
    \E append_ok \in BOOLEAN : DeferStep("coro_defer2", "cb2", "d2", append_ok)

\* coro_malloc_full(coro, size, destroy_func), and through it coro_malloc,
\* coro_strndup and coro_strdup: malloc, then coro_defer(destroy_func, ptr)
\* when malloc returned memory.
CoroMallocFull ==
    \E malloc_ok \in BOOLEAN, append_ok \in BOOLEAN :
        IF malloc_ok
        THEN DeferStep("coro_malloc", "free", NULL, append_ok)
        ELSE /\ Alive
             /\ nreg < budget.reg
             /\ op' = Op("coro_malloc", 0, 0)
             /\ UNCHANGED <<defer, yield_value, ended, context, running,
                            frame, freed, fault, gens, nreg, registered, log,
                            cap, primed, yield_ret, resume_ret, budget,
                   hdr_vars, resp_vars>>

\* coro_printf(coro, fmt, ...): vasprintf, then coro_defer(free, tmp_str)
\* unless vasprintf failed.
CoroPrintf ==
    \E vasprintf_ok \in BOOLEAN, append_ok \in BOOLEAN :
        IF vasprintf_ok
        THEN DeferStep("coro_printf", "free", NULL, append_ok)
        ELSE /\ Alive
             /\ nreg < budget.reg
             /\ op' = Op("coro_printf", 0, 0)
             /\ UNCHANGED <<defer, yield_value, ended, context, running,
                            frame, freed, fault, gens, nreg, registered, log,
                            cap, primed, yield_ret, resume_ret, budget,
                   hdr_vars, resp_vars>>

(* ------------------------ generations, rollback ----------------------- *)
CoroDeferredGetGeneration ==
    LET g == coro_deferred_get_generation(defer)
    IN /\ Alive
       /\ g \in gens \/ Cardinality(gens) < MaxGens
       /\ gens' = gens \cup {g}
       /\ cap' = [x \in DOMAIN cap \cup {g} |-> IF x = g THEN defer ELSE cap[x]]
       /\ op' = Op("coro_deferred_get_generation", g, 0)
       /\ UNCHANGED <<defer, yield_value, ended, context, running,
                      frame, freed, fault, nreg, registered, log, primed,
                      yield_ret, resume_ret, budget,
                   hdr_vars, resp_vars>>

\* coro_deferred_run(coro, generation) called by a client with a generation
\* it holds.
CoroDeferredRun ==
    \E g \in gens :
        LET r == coro_deferred_run(defer, g, nreg)
        IN /\ Alive
           /\ defer' = r.defer
           /\ log' = log \o r.ran
           /\ nreg' = r.nid
           /\ registered' = registered \cup r.added
           /\ fault' = r.fault
           /\ cap' = Restrict(cap, {k \in DOMAIN cap : k <= g})
           /\ op' = Op("coro_deferred_run", g, 0)
           /\ UNCHANGED <<yield_value, ended, context, running, frame,
                          freed, gens, primed, yield_ret, resume_ret, budget,
                   hdr_vars, resp_vars>>

(* --------------------------- reset and free --------------------------- *)
coro_reset_context_kept(ctx, func, data) == ctx

\* coro_reset: the saved context is primed again, as in coro_new.
coro_reset_context(ctx, func, data) == entry_context(func, data)

\* coro_reset: coro->ended = false
coro_reset_ended(is_ended) == FALSE

\* coro_reset(coro, func, data) from the I/O thread: ended = false, the
\* deferred actions, coro_defer_array_reset, then the context is primed.
CoroReset ==
    \E p \in Programs :
        LET r == coro_deferred_run(defer, 0, nreg)
            func == p[1]
            data == p[2]
        IN /\ Alive
           /\ ~running
           /\ ended' = coro_reset_ended(ended)
           /\ defer' = <<>>
           /\ log' = log \o r.ran
           /\ nreg' = r.nid
           /\ registered' = registered \cup r.added
           /\ context' = coro_reset_context(context, func, data)
           /\ primed' = [func |-> func, data |-> data, resumed |-> FALSE]
           /\ cap' = Restrict(cap, DOMAIN cap \cap {0})
           /\ op' = Op("coro_reset", 0, 0)
           /\ UNCHANGED <<yield_value, running, frame, freed, fault,
                          gens, yield_ret, resume_ret, budget,
                   hdr_vars, resp_vars>>

\* coro_free(coro) from the I/O thread.
CoroFree ==
    LET r == coro_deferred_run(defer, 0, nreg)
    IN /\ Alive
       /\ ~running
       /\ defer' = <<>>
       /\ log' = log \o r.ran
       /\ nreg' = r.nid
       /\ registered' = registered \cup r.added
       /\ freed' = TRUE
       /\ cap' = Restrict(cap, DOMAIN cap \cap {0})
       /\ op' = Op("coro_free", 0, 0)
       /\ UNCHANGED <<yield_value, ended, context, running, frame,
                      fault, gens, primed, yield_ret, resume_ret, budget,
                   hdr_vars, resp_vars>>

(* ------------------------ resume, yield, return ----------------------- *)
coro_resume_value_no_store(yv, value) == yv

\* coro_resume_value: coro->yield_value = value
coro_resume_value_store(yv, value) == value

\* coro_resume after the swapcontext came back: the callee context is kept
\* for the next resume unless the handler has returned.
coro_resume_context(ctx, saved, is_ended) ==
    IF ~is_ended THEN saved ELSE ctx

\* coro_resume: return coro->yield_value
coro_resume_return(yv) == yv

\* coro_yield: coro->yield_value = value
coro_yield_store(yv, value) == value

\* coro_yield, when control is back in the handler: return coro->yield_value
coro_yield_return(yv) == yv

coro_entry_point_not_ended(is_ended) == is_ended

\* coro_entry_point after func returned: coro->ended = true
coro_entry_point_ended(is_ended) == TRUE

\* The first half of coro_resume: the asserts, then coro_swapcontext into
\* coro->context.  The rest of coro_resume runs when the coroutine swaps
\* back (CoroYield, HandlerReturn).
ResumeStep(name, set_value, value) ==
    /\ Alive
    /\ ~running
    /\ op' = Op(name, 0, value)
    /\ IF ended
       THEN /\ fault' = "assert"
            /\ UNCHANGED <<yield_value, running, frame, yield_ret, primed>>
       ELSE LET yv == IF set_value
                      THEN coro_resume_value_store(yield_value, value)
                      ELSE yield_value
            IN /\ yield_value' = yv
               /\ running' = TRUE
               /\ frame' = [func |-> context.func, data |-> context.data,
                            pos |-> context.pos,
                            via |-> context.rip]
               /\ yield_ret' = IF context.rip = "coro_yield"
                               THEN coro_yield_return(yv) ELSE yield_ret
               /\ primed' = [primed EXCEPT !.resumed = TRUE]
               /\ fault' = fault
    /\ UNCHANGED <<defer, ended, context, freed, gens, nreg,
                   registered, log, cap, resume_ret, budget,
                   hdr_vars, resp_vars>>

CoroResume == ResumeStep("coro_resume", FALSE, 0)

CoroResumeValue == \E v \in 0..budget.val : ResumeStep("coro_resume_value", TRUE, v)

\* coro_yield(coro, value) by the running handler, and the second half of
\* the coro_resume that entered it.
CoroYield ==
    \E value \in 0..budget.val :
        LET yv == coro_yield_store(yield_value, value)
            saved == [rip |-> "coro_yield", func |-> frame.func,
                      data |-> frame.data, pos |-> frame.pos + 1]
        IN /\ Alive
           /\ running
           /\ frame.pos < budget.yield
           /\ yield_value' = yv
           /\ running' = FALSE
           /\ frame' = NoFrame
           /\ context' = coro_resume_context(context, saved, ended)
           /\ resume_ret' = coro_resume_return(yv)
           /\ op' = Op("coro_yield", 0, value)
           /\ UNCHANGED <<defer, ended, freed, fault, gens, nreg, registered,
                          log, cap, primed, yield_ret, budget,
                   hdr_vars, resp_vars>>

\* The handler returns return_value to coro_entry_point, which sets ended,
\* stores the value in yield_value and swaps back to the caller.
HandlerReturn ==
    \E return_value \in 0..budget.val :
        LET saved == [rip |-> "coro_entry_point", func |-> frame.func,
                      data |-> frame.data, pos |-> frame.pos]
            e == coro_entry_point_ended(ended)
        IN /\ Alive
           /\ running
           /\ ended' = e
           /\ yield_value' = return_value
           /\ running' = FALSE
           /\ frame' = NoFrame
           /\ context' = coro_resume_context(context, saved, e)
           /\ resume_ret' = coro_resume_return(return_value)
           /\ op' = Op("return", 0, return_value)
           /\ UNCHANGED <<defer, freed, fault, gens, nreg, registered, log,
                          cap, primed, yield_ret, budget,
                   hdr_vars, resp_vars>>

NextCoro ==
    \/ CoroDefer
    \/ CoroDefer2
    \/ CoroMallocFull
    \/ CoroPrintf
    \/ CoroDeferredGetGeneration
    \/ CoroDeferredRun
    \/ CoroReset
    \/ CoroFree
    \/ CoroResume
    \/ CoroResumeValue
    \/ CoroYield
    \/ HandlerReturn

InitDefer == InitCoro(DeferBudget)

InitControl == InitCoro(ControlBudget)

SpecDefer == InitDefer /\ [][NextCoro]_vars

SpecCoro == InitControl /\ [][NextCoro]_vars

(* ====================== response header assembly ====================== *)
\* enum lwan_http_status, as far as lwan-response.c names its members
HTTP_OK == 200
HTTP_BAD_REQUEST == 400
HTTP_NOT_AUTHORIZED == 401
HTTP_INTERNAL_ERROR == 500

\* the largest headers_buf_size followed
MaxBuf == 448
\* the most additional headers a request carries
MaxHeaders == 2

\* lwan_http_status_as_string_with_code(status)
lwan_http_status_as_string_with_code(status) ==
    CASE status = HTTP_OK -> "200 OK"
      [] status = HTTP_NOT_AUTHORIZED -> "401 Not authorized"
      [] OTHER -> "500 Internal server error"

\* uint_to_string(value, buffer, &len)
uint_to_string(value) == ToString(value)

streq(a, b) == a = b

\* One line of the header block: the status line (origin "status", the
\* HTTP version as its key), a line header assembly makes itself ("server")
\* or a line copied from the additional headers ("user").
Line(key, val, origin) == [key |-> key, val |-> val, origin |-> origin]

\* The steps of the macros.  check: RETURN_0_ON_OVERFLOW(len) alone; append:
\* RETURN_0_ON_OVERFLOW(len) and mempcpy of len bytes; nocheck:
\* APPEND_CHAR_NOCHECK.  lines: the header lines the bytes begin; key, val:
\* the part of the current line the bytes are.
Step(kind, len, lines, key, val) ==
    [kind |-> kind, len |-> len, lines |-> lines, key |-> key, val |-> val]

RETURN_0_ON_OVERFLOW(len) == Step("check", len, <<>>, "", "")

APPEND_STRING_LEN(len, lines, key, val) == Step("append", len, lines, key, val)

APPEND_STRING_key(str) == APPEND_STRING_LEN(Len(str), <<>>, str, "")

APPEND_STRING_value(str) == APPEND_STRING_LEN(Len(str), <<>>, "", str)

APPEND_CHAR_NOCHECK(lines) == Step("nocheck", 1, lines, "", "")

APPEND_UINT(value) ==
    LET tmp == uint_to_string(value)
    IN <<RETURN_0_ON_OVERFLOW(Len(tmp)), APPEND_STRING_value(tmp)>>

APPEND_CONSTANT(const_str, lines) ==
    APPEND_STRING_LEN(Len(const_str), lines, "", "")

\* "HTTP/1.0 " or "HTTP/1.1 ", then the status with its code
status_line_steps(req, status) ==
    <<IF req.http10
      THEN APPEND_CONSTANT("HTTP/1.0 ", <<Line("HTTP/1.0", "", "status")>>)
      ELSE APPEND_CONSTANT("HTTP/1.1 ", <<Line("HTTP/1.1", "", "status")>>),
      APPEND_STRING_value(lwan_http_status_as_string_with_code(status))>>

framing_steps_ignoring_no_content_length(req) ==
    IF req.chunked
    THEN <<APPEND_CONSTANT("\r\nTransfer-Encoding: chunked",
                           <<Line("Transfer-Encoding", "chunked", "server")>>)>>
    ELSE <<APPEND_CONSTANT("\r\nContent-Length: ",
                           <<Line("Content-Length", "", "server")>>)>>
         \o APPEND_UINT(IF req.callback THEN req.content_length
                        ELSE req.body_len)

\* Transfer-Encoding: chunked, or nothing, or Content-Length: N
framing_steps(req) ==
    IF req.chunked
    THEN <<APPEND_CONSTANT("\r\nTransfer-Encoding: chunked",
                           <<Line("Transfer-Encoding", "chunked", "server")>>)>>
    ELSE IF req.no_content_length
    THEN <<>>
    ELSE <<APPEND_CONSTANT("\r\nContent-Length: ",
                           <<Line("Content-Length", "", "server")>>)>>
         \o APPEND_UINT(IF req.callback THEN req.content_length
                        ELSE req.body_len)

content_type_steps(req) ==
    <<APPEND_CONSTANT("\r\nContent-Type: ",
                      <<Line("Content-Type", "", "server")>>),
      APPEND_STRING_value(req.mime_type)>>

connection_steps(req) ==
    <<IF req.keep_alive
      THEN APPEND_CONSTANT("\r\nConnection: keep-alive",
                           <<Line("Connection", "keep-alive", "server")>>)
      ELSE APPEND_CONSTANT("\r\nConnection: close",
                           <<Line("Connection", "close", "server")>>)>>

skip_header_never(key) == FALSE

\* if (streq(header->key, "Server")) continue;
skip_header(key) == streq(key, "Server")

\* One turn of the loop over the additional headers (status < 400).
additional_header_steps(h) ==
    IF skip_header(h.key) THEN <<>>
    ELSE <<RETURN_0_ON_OVERFLOW(4),
           APPEND_CHAR_NOCHECK(<<Line("", "", "user")>>),
           APPEND_CHAR_NOCHECK(<<>>),
           APPEND_STRING_key(h.key),
           APPEND_CHAR_NOCHECK(<<>>),
           APPEND_CHAR_NOCHECK(<<>>),
           APPEND_STRING_value(h.value)>>

\* The loop of the 401 branch: the first WWW-Authenticate header, then break.
RECURSIVE www_authenticate_loop(_)
www_authenticate_loop(list) ==
    IF list = <<>> THEN <<>>
    ELSE IF streq(Head(list).key, "WWW-Authenticate")
    THEN <<APPEND_CONSTANT("\r\nWWW-Authenticate: ",
                           <<Line("WWW-Authenticate", "", "user")>>),
           APPEND_STRING_value(Head(list).value)>>
    ELSE www_authenticate_loop(Tail(list))

overridden_never(status, additional_headers, key) == FALSE

\* date_overridden (key "Date") and expires_overridden (key "Expires"): set
\* in the first loop only, by a header that is not skipped.
overridden(status, additional_headers, key) ==
    /\ status < HTTP_BAD_REQUEST
    /\ ~additional_headers.null
    /\ \E k \in 1..Len(additional_headers.list) :
          /\ ~skip_header(additional_headers.list[k].key)
          /\ streq(additional_headers.list[k].key, key)

\* request->conn->thread->date.date and .expires are 29 bytes each
date_steps(status, additional_headers) ==
    (IF ~overridden(status, additional_headers, "Date")
     THEN <<APPEND_CONSTANT("\r\nDate: ", <<Line("Date", "", "server")>>),
            APPEND_STRING_LEN(29, <<>>, "", "date.date")>>
     ELSE <<>>)
    \o
    (IF ~overridden(status, additional_headers, "Expires")
     THEN <<APPEND_CONSTANT("\r\nExpires: ", <<Line("Expires", "", "server")>>),
            APPEND_STRING_LEN(29, <<>>, "", "date.expires")>>
     ELSE <<>>)

cors_steps(req) ==
    IF req.cors
    THEN <<APPEND_STRING_LEN(
             Len("\r\nAccess-Control-Allow-Origin: *")
             + Len("\r\nAccess-Control-Allow-Methods: GET, POST, OPTIONS")
             + Len("\r\nAccess-Control-Allow-Credentials: true")
             + Len("\r\nAccess-Control-Allow-Headers: Origin, Accept, Content-Type"),
             <<Line("Access-Control-Allow-Origin", "*", "server"),
               Line("Access-Control-Allow-Methods", "GET, POST, OPTIONS", "server"),
               Line("Access-Control-Allow-Credentials", "true", "server"),
               Line("Access-Control-Allow-Headers",
                    "Origin, Accept, Content-Type", "server")>>,
             "", "")>>
    ELSE <<>>

\* "\r\nServer: lwan\r\n\r\n\0": the line, the blank line and a NUL
server_steps ==
    <<APPEND_STRING_LEN(Len("\r\nServer: lwan\r\n\r\n") + 1,
                        <<Line("Server", "lwan", "server")>>, "", "")>>

Max(a, b) == IF a >= b THEN a ELSE b

\* The header lines after a step's bytes.
lines_after(lines, st) ==
    LET started == lines \o st.lines
        n == Len(started)
    IN IF n = 0 \/ (st.key = "" /\ st.val = "") THEN started
       ELSE [started EXCEPT ![n] =
                [key |-> IF st.key # "" THEN st.key ELSE @.key,
                 val |-> IF st.val # "" THEN st.val ELSE @.val,
                 origin |-> @.origin]]

\* RETURN_0_ON_OVERFLOW: p_headers + (len_) >= p_headers_end
overflows(p, len, size) == p + len >= size

\* The assembly before its first byte: p_headers = headers (offset 0);
\* max_written: the highest index of headers[] written so far, -1 for none;
\* stop: "return 0" after a return 0, "null_deref" after a read through a
\* null additional_headers.
AtStart == [p |-> 0, lines |-> <<>>, max_written |-> -1, stop |-> "none"]

\* mempcpy(p_headers, str, len) or *p_headers++ = c, at s.p
written(s, st) ==
    [p |-> s.p + st.len,
     lines |-> lines_after(s.lines, st),
     max_written |-> IF st.len > 0 THEN Max(s.max_written, s.p + st.len - 1)
                     ELSE s.max_written,
     stop |-> s.stop]

stopped(s, why) == [s EXCEPT !.stop = why]

\* Runs the steps from the k-th on, s being the assembly so far.
RECURSIVE assemble(_, _, _, _)
assemble(steps, k, size, s) ==
    IF k > Len(steps) \/ s.stop # "none" THEN s
    ELSE IF steps[k].kind = "nocheck"
    THEN assemble(steps, k + 1, size, written(s, steps[k]))
    ELSE IF overflows(s.p, steps[k].len, size) THEN stopped(s, "return 0")
    ELSE IF steps[k].kind = "check" THEN assemble(steps, k + 1, size, s)
    ELSE assemble(steps, k + 1, size, written(s, steps[k]))

\* for (header = additional_headers; header->key; header++), status < 400
RECURSIVE additional_headers_loop(_, _, _)
additional_headers_loop(list, size, s) ==
    IF list = <<>> THEN s
    ELSE additional_headers_loop(
             Tail(list), size,
             assemble(additional_header_steps(Head(list)), 1, size, s))

\* if (status < HTTP_BAD_REQUEST && additional_headers) ... else if
\* (status == HTTP_NOT_AUTHORIZED) ...: the second loop starts by reading
\* additional_headers->key, whatever the pointer is.
additional_steps(status, additional_headers, size, s) ==
    IF status < HTTP_BAD_REQUEST /\ ~additional_headers.null
    THEN additional_headers_loop(additional_headers.list, size, s)
    ELSE IF status = HTTP_NOT_AUTHORIZED
    THEN IF s.stop # "none" THEN s
         ELSE IF additional_headers.null THEN stopped(s, "null_deref")
         ELSE assemble(www_authenticate_loop(additional_headers.list), 1,
                       size, s)
    ELSE s

lwan_prepare_response_header_server_before_cors(req, status, size, additional_headers) ==
    LET before == assemble(status_line_steps(req, status)
                           \o framing_steps(req)
                           \o content_type_steps(req)
                           \o connection_steps(req), 1, size, AtStart)
        copied == additional_steps(status, additional_headers, size, before)
        s == assemble(date_steps(status, additional_headers)
                      \o server_steps
                      \o cors_steps(req), 1, size, copied)
    IN [state |-> "done",
        ret |-> IF s.stop = "none" THEN s.p - 1 ELSE 0,
        lines |-> s.lines,
        max_written |-> s.max_written,
        fault |-> IF s.stop = "null_deref" THEN "null_deref" ELSE "none"]

\* size_t lwan_prepare_response_header_full(request, status, headers,
\* headers_buf_size, additional_headers): the steps in the order of its
\* body; return (size_t)(p_headers - headers - 1) at its end.
lwan_prepare_response_header_full(req, status, size, additional_headers) ==
    LET before == assemble(status_line_steps(req, status)
                           \o framing_steps(req)
                           \o content_type_steps(req)
                           \o connection_steps(req), 1, size, AtStart)
        copied == additional_steps(status, additional_headers, size, before)
        s == assemble(date_steps(status, additional_headers)
                      \o cors_steps(req)
                      \o server_steps, 1, size, copied)
    IN [state |-> "done",
        ret |-> IF s.stop = "none" THEN s.p - 1 ELSE 0,
        lines |-> s.lines,
        max_written |-> s.max_written,
        fault |-> IF s.stop = "null_deref" THEN "null_deref" ELSE "none"]

\* lwan_prepare_response_header: with request->response.headers
lwan_prepare_response_header(req, status, size) ==
    lwan_prepare_response_header_full(req, status, size, req.headers)

(* ---------------------- header assembly: inputs ----------------------- *)
Statuses == {HTTP_OK, HTTP_NOT_AUTHORIZED, HTTP_INTERNAL_ERROR}

UserKeys == {"Server", "Date", "Expires", "WWW-Authenticate",
             "Content-Length", "Content-Type", "X-Custom"}

\* The k-th additional header carries the value "u<k>".
KeyValues(keys) ==
    [k \in 1..Len(keys) |-> [key |-> keys[k], value |-> "u" \o ToString(k)]]

KeyLists(keys) == UNION {[1..n -> keys] : n \in 0..MaxHeaders}

AdditionalHeaders(keys) ==
    {NullHeaders} \cup {HeaderList(KeyValues(l)) : l \in KeyLists(keys)}

\* Every Response Context over the inputs above.
Requests ==
    [status : Statuses, http10 : BOOLEAN, keep_alive : BOOLEAN,
     chunked : BOOLEAN, no_content_length : BOOLEAN, cors : BOOLEAN,
     callback : BOOLEAN, content_length : {345}, body_len : {0, 12},
     mime_type : {"text/plain"}, headers : AdditionalHeaders(UserKeys)]

\* The Response Contexts followed through every buffer size.
SizedRequests ==
    [status : {HTTP_OK, HTTP_NOT_AUTHORIZED}, http10 : {FALSE},
     keep_alive : {FALSE}, chunked : BOOLEAN, no_content_length : {FALSE},
     cors : BOOLEAN, callback : {FALSE}, content_length : {345},
     body_len : {12}, mime_type : {"text/plain"},
     headers : AdditionalHeaders({"Date", "X-Custom", "WWW-Authenticate"})]

\* A request before it asks for its header: any Response Context with a
\* buffer of MaxBuf bytes, or one of SizedRequests with any smaller buffer.
InitHdr ==
    /\ \/ request \in Requests /\ headers_buf_size = MaxBuf
       \/ request \in SizedRequests /\ headers_buf_size \in 0..MaxBuf
    /\ header = NoHeader
    /\ io = <<>>
    /\ calls = <<>>
    /\ crash = "none"
    /\ chunk = NoChunk
    /\ defer = <<>>
    /\ yield_value = 0
    /\ ended = FALSE
    /\ context = NoContext
    /\ running = FALSE
    /\ frame = NoFrame
    /\ freed = FALSE
    /\ fault = "none"
    /\ gens = {}
    /\ nreg = 0
    /\ registered = {}
    /\ log = <<>>
    /\ cap = [g \in {} |-> <<>>]
    /\ op = [name |-> "none", gen |-> 0, val |-> 0, from |-> "none"]
    /\ primed = [func |-> "none", data |-> "none", resumed |-> FALSE]
    /\ yield_ret = 0
    /\ resume_ret = 0
    /\ budget = [reg |-> 0, yield |-> 0, val |-> 0]

\* The caller builds the header of its request in its buffer.
PrepareResponseHeader ==
    /\ header.state = "none"
    /\ header' = lwan_prepare_response_header(request, request.status,
                                              headers_buf_size)
    /\ UNCHANGED <<request, headers_buf_size, coro_vars, resp_vars>>

NextHdr == PrepareResponseHeader

SpecHdr == InitHdr /\ [][NextHdr]_vars

(* ========================== response framer ========================== *)
\* char headers[DEFAULT_HEADERS_SIZE] in lwan_response
DEFAULT_HEADERS_SIZE == 512
\* char buffer[DEFAULT_BUFFER_SIZE] in lwan_response_set_chunked and
\* lwan_response_set_event_stream
DEFAULT_BUFFER_SIZE == 4096
\* sizeof(size_t), for char chunk_size[3 * sizeof(size_t) + 2]
SIZEOF_SIZE_T == 8

\* framer calls followed on one request
MaxCalls == 3
\* nested lwan_response activations followed before giving up
MaxDepth == 6

CRLF == "\r\n"

\* The framer at work on a request: the Response Context, what went to the
\* I/O layer, what happened inside the call at hand, and the crash, if any.
Ctx(req, sent, state) ==
    [request |-> req, io |-> sent, ev |-> <<>>, crash |-> state]

\* One entry of io.  kind: "lwan_send", "lwan_writev", "callback" (what the
\* stream callback sent itself) or "coro_yield"; part: "header" (a header
\* block alone), "response" (header block and body), "chunk", "last_chunk"
\* or "event"; lines: the lines of the header block; bytes: the bytes
\* after it, one element a character or a literal of the source; value:
\* the flags of lwan_send or the value yielded.
Io(kind, part, status, lines, bytes, value) ==
    [kind |-> kind, part |-> part, status |-> status, lines |-> lines,
     bytes |-> bytes, value |-> value]

lwan_send(x, part, status, lines, bytes, flags) ==
    [x EXCEPT !.io = Append(@, Io("lwan_send", part, status, lines, bytes,
                                  flags))]

lwan_writev(x, part, status, lines, bytes) ==
    [x EXCEPT !.io = Append(@, Io("lwan_writev", part, status, lines, bytes,
                                  ""))]

coro_yield(x, value) ==
    [x EXCEPT !.io = Append(@, Io("coro_yield", "", 0, <<>>, <<>>, value))]

lwan_strbuf_reset(x) == [x EXCEPT !.request.buffer = <<>>]

happened(x, what) == [x EXCEPT !.ev = Append(@, what)]

\* lwan_prepare_response_header as the framer calls it: request->response
\* .buffer gives the body length; a null mime_type is read by strlen.
prepared(x, status, size) ==
    IF x.request.mime_type = NULL
    THEN [NoHeader EXCEPT !.state = "done", !.fault = "null_deref"]
    ELSE lwan_prepare_response_header(
             [x.request EXCEPT !.body_len = Len(x.request.buffer)],
             status, size)

\* What a call of header assembly does to its caller apart from its
\* result: a read through a null pointer ends the process; a byte written
\* past the caller's array on the stack may end it (canary) or not.
after_prepared(x, h, size, canary) ==
    IF h.fault # "none" THEN [x EXCEPT !.crash = h.fault]
    ELSE IF h.max_written >= size /\ canary
    THEN [x EXCEPT !.crash = "stack_overwrite"]
    ELSE x

Returns(x, ret) == [x |-> x, ret |-> ret]

\* A local of the source that is assigned once and read several times:
\* the one element of S.
Once(S) == CHOOSE v \in S : TRUE

\* request->flags |= RESPONSE_SENT_HEADERS
set_sent_headers(x) == [x EXCEPT !.request.sent_headers = TRUE]

\* bool lwan_response_set_chunked(request, status)
lwan_response_set_chunked(x, status, canary) ==
    IF x.request.sent_headers THEN Returns(x, FALSE)
    ELSE LET flagged == [x EXCEPT !.request.chunked = TRUE]
         IN Once({
              LET x1 == after_prepared(flagged, h, DEFAULT_BUFFER_SIZE, canary)
              IN IF x1.crash # "none" THEN Returns(x1, FALSE)
                 ELSE IF h.ret = 0
                 THEN Returns(happened(x1, "assembly_0@set_chunked"), FALSE)
                 ELSE Returns(lwan_send(set_sent_headers(x1), "header",
                                        status, h.lines, <<>>, "MSG_MORE"),
                              TRUE)
              : h \in {prepared(flagged, status, DEFAULT_BUFFER_SIZE)}})

HexDigits == <<"0", "1", "2", "3", "4", "5", "6", "7", "8", "9",
               "a", "b", "c", "d", "e", "f">>

\* "%zx": the digits of n in base 16, first the most significant
to_hex_units(n) == <<HexDigits[(n % 16) + 1]>>

RECURSIVE to_hex(_)
to_hex(n) ==
    IF n < 16 THEN <<HexDigits[n + 1]>>
    ELSE to_hex(n \div 16) \o <<HexDigits[(n % 16) + 1]>>

sizeof_chunk_size_two_per_byte(size_t_bytes) == 2 * size_t_bytes + 2

\* sizeof(chunk_size), for char chunk_size[3 * sizeof(size_t) + 2]
sizeof_chunk_size(size_t_bytes) == 3 * size_t_bytes + 2

frame_yield_never(x) == x

\* coro_yield(request->conn->coro, CONN_CORO_MAY_RESUME) after a frame
frame_yield(x) == coro_yield(x, "CONN_CORO_MAY_RESUME")

\* void lwan_response_send_chunk(request)
lwan_response_send_chunk(x, canary) ==
    Once({
      LET buffer == s.x.request.buffer
          chunk_size == to_hex(Len(buffer)) \o <<CRLF>>
      IN IF ~s.ret THEN s.x
         ELSE IF Len(buffer) = 0
         THEN lwan_send(s.x, "last_chunk", 0, <<>>, <<"0", CRLF, CRLF>>, "0")
         ELSE IF Len(chunk_size) + 1 >= sizeof_chunk_size(SIZEOF_SIZE_T)
         THEN [coro_yield(s.x, "CONN_CORO_ABORT")
                 EXCEPT !.crash = "CONN_CORO_ABORT"]
         ELSE frame_yield(lwan_strbuf_reset(
                  lwan_writev(s.x, "chunk", 0, <<>>,
                              chunk_size \o buffer \o <<CRLF>>)))
      : s \in {IF ~x.request.sent_headers
               THEN lwan_response_set_chunked(x, HTTP_OK, canary)
               ELSE Returns(x, TRUE)}})

\* bool lwan_response_set_event_stream(request, status)
lwan_response_set_event_stream(x, status, canary) ==
    IF x.request.sent_headers THEN Returns(x, FALSE)
    ELSE LET flagged == [x EXCEPT !.request.mime_type = "text/event-stream",
                                  !.request.no_content_length = TRUE]
         IN Once({
              LET x1 == after_prepared(flagged, h, DEFAULT_BUFFER_SIZE, canary)
              IN IF x1.crash # "none" THEN Returns(x1, FALSE)
                 ELSE IF h.ret = 0
                 THEN Returns(happened(x1, "assembly_0@set_event_stream"),
                              FALSE)
                 ELSE Returns(lwan_send(set_sent_headers(x1), "header",
                                        status, h.lines, <<>>, "MSG_MORE"),
                              TRUE)
              : h \in {prepared(flagged, status, DEFAULT_BUFFER_SIZE)}})

\* void lwan_response_send_event(request, event)
lwan_response_send_event(x, event, canary) ==
    Once({
      LET buffer == s.x.request.buffer
          vec == (IF event # NULL THEN <<"event: ", event, CRLF>> ELSE <<>>)
                 \o (IF Len(buffer) # 0 THEN <<"data: ">> \o buffer
                     ELSE <<>>)
                 \o <<"\r\n\r\n">>
      IN IF ~s.ret THEN s.x
         ELSE frame_yield(lwan_strbuf_reset(
                  lwan_writev(s.x, "event", 0, <<>>, vec)))
      : s \in {IF ~x.request.sent_headers
               THEN lwan_response_set_event_stream(x, HTTP_OK, canary)
               ELSE Returns(x, TRUE)}})

\* bytes the error template renders to, whatever the status
ErrorTemplateLen == 100

\* lwan_tpl_apply_with_buffer(error_template, buffer, {short_message,
\* long_message}): the template engine renders into the body buffer; its
\* first element stands for the two messages, the others for the markup.
lwan_tpl_apply_with_buffer(x, status) ==
    [x EXCEPT !.request.buffer =
        [i \in 1..ErrorTemplateLen |->
            IF i = 1 THEN lwan_http_status_as_string_with_code(status)
            ELSE "."]]

\* has_response_body[lwan_request_get_method(request)]
has_response_body(method) == method \in {"GET", "POST"}

\* request->response.stream.callback(request, data): the callback is the
\* handler's code; it reports a status, and on success it has sent the
\* response itself.
stream_callback(x) ==
    LET called == happened(x, "callback")
    IN IF x.request.callback_status >= HTTP_BAD_REQUEST THEN called
       ELSE [called EXCEPT !.io = Append(@, Io("callback", "response",
                 x.request.callback_status, <<>>, <<>>, ""))]

\* request->response.stream.callback = NULL
callback_reset(x) == [x EXCEPT !.request.callback = FALSE]

RECURSIVE lwan_response(_, _, _, _)
RECURSIVE lwan_default_response(_, _, _, _)

\* void lwan_default_response(request, status)
lwan_default_response(x, status, canary, depth) ==
    lwan_response(
        lwan_tpl_apply_with_buffer(
            [x EXCEPT !.request.mime_type = "text/html"], status),
        status, canary, depth + 1)

\* void lwan_response(request, status); depth counts the activations of
\* lwan_response below this one.
lwan_response(x0, status, canary, depth) ==
    LET x == happened(x0, "lwan_response")
    IN IF depth > MaxDepth THEN [x EXCEPT !.crash = "stack_exhausted"]
       ELSE IF x.request.chunked
       THEN lwan_response_send_chunk(lwan_strbuf_reset(x), canary)
       ELSE IF x.request.sent_headers THEN happened(x, "ignored")
       ELSE IF x.request.mime_type = NULL
       THEN lwan_default_response(x, status, canary, depth)
       ELSE IF x.request.callback
       THEN LET called == callback_reset(stream_callback(x))
            IN IF x.request.callback_status >= HTTP_BAD_REQUEST
               THEN lwan_default_response(called, x.request.callback_status,
                                          canary, depth)
               ELSE called
       ELSE Once({
              LET x1 == after_prepared(x, h, DEFAULT_HEADERS_SIZE, canary)
              IN IF x1.crash # "none" THEN x1
                 ELSE IF h.ret = 0
                 THEN lwan_default_response(
                          happened(x1, "assembly_0@lwan_response"),
                          HTTP_INTERNAL_ERROR, canary, depth)
                 ELSE IF has_response_body(x.request.method)
                 THEN lwan_writev(x1, "response", status, h.lines,
                                  x1.request.buffer)
                 ELSE lwan_send(x1, "header", status, h.lines, <<>>, "0")
              : h \in {prepared(x, status, DEFAULT_HEADERS_SIZE)}})

\* A string of n characters.
RECURSIVE Pad(_)
Pad(n) ==
    IF n = 0 THEN ""
    ELSE IF n % 2 = 1 THEN "x" \o Pad(n - 1)
    ELSE LET half == Pad(n \div 2) IN half \o half

\* The additional headers of the requests followed: none, a
\* WWW-Authenticate, one too long for DEFAULT_HEADERS_SIZE, one too long
\* for DEFAULT_BUFFER_SIZE, and two that bring the second key to the last
\* bytes of lwan_response's array.
FramerHeaders ==
    {NullHeaders,
     HeaderList(<<[key |-> "WWW-Authenticate", value |-> "Basic"]>>),
     HeaderList(<<[key |-> "X-Custom", value |-> Pad(600)]>>),
     HeaderList(<<[key |-> "X-Custom", value |-> Pad(4200)]>>),
     HeaderList(<<[key |-> "X-Custom", value |-> Pad(405)],
                  [key |-> "X-Custom", value |-> "v"]>>)}

\* what the stream callback of a request reports: 0 for no callback
CallbackStatuses == {0, HTTP_OK, HTTP_NOT_AUTHORIZED}

\* The Response Contexts a handler starts from: no flag of the framer set,
\* an empty body buffer.
FramerRequests ==
    {[status |-> 0, http10 |-> FALSE, keep_alive |-> TRUE, chunked |-> FALSE,
      no_content_length |-> FALSE, cors |-> FALSE, callback |-> cb # 0,
      content_length |-> 345, body_len |-> 0, mime_type |-> mime,
      headers |-> hs, sent_headers |-> FALSE, callback_status |-> cb,
      buffer |-> <<>>, method |-> method] :
        cb \in CallbackStatuses, mime \in {NULL, "text/plain"},
        hs \in FramerHeaders, method \in {"GET", "HEAD"}}

\* bytes of the longer body followed: its length takes two hex digits
LongBody == 26

\* the bodies a handler puts in the buffer before a call
Bodies == {<<>>, <<"A">>, [i \in 1..LongBody |-> "B"]}

InitResp ==
    /\ request \in FramerRequests
    /\ headers_buf_size = DEFAULT_HEADERS_SIZE
    /\ header = NoHeader
    /\ io = <<>>
    /\ calls = <<>>
    /\ crash = "none"
    /\ chunk = NoChunk
    /\ defer = <<>>
    /\ yield_value = 0
    /\ ended = FALSE
    /\ context = NoContext
    /\ running = FALSE
    /\ frame = NoFrame
    /\ freed = FALSE
    /\ fault = "none"
    /\ gens = {}
    /\ nreg = 0
    /\ registered = {}
    /\ log = <<>>
    /\ cap = [g \in {} |-> <<>>]
    /\ op = [name |-> "none", gen |-> 0, val |-> 0, from |-> "none"]
    /\ primed = [func |-> "none", data |-> "none", resumed |-> FALSE]
    /\ yield_ret = 0
    /\ resume_ret = 0
    /\ budget = [reg |-> 0, yield |-> 0, val |-> 0]

\* One entry of calls: the call, its arguments, the body buffer and the
\* length of io it started with, what happened inside it, its result for
\* the calls that have one, and the body buffer it left.
Call(name, status, event, x0, x, ret) ==
    [op |-> name, status |-> status, event |-> event,
     body |-> x0.request.buffer, io_before |-> Len(x0.io), ev |-> x.ev,
     ret |-> ret, left |-> x.request.buffer, crash |-> x.crash]

\* The handler, with `body` in its buffer, makes the call that takes x0 to x.
FramerCall(name, status, event, x0, x, ret) ==
    /\ request' = x.request
    /\ io' = x.io
    /\ crash' = x.crash
    /\ calls' = Append(calls, Call(name, status, event, x0, x, ret))
    /\ UNCHANGED <<headers_buf_size, header, chunk, coro_vars>>

\* the request as the handler hands it to the framer
Handed(body) ==
    Ctx([request EXCEPT !.buffer = body], io, crash)

CanCall == crash = "none" /\ Len(calls) < MaxCalls

Respond ==
    /\ CanCall
    /\ \E status \in {HTTP_OK, HTTP_NOT_AUTHORIZED}, body \in Bodies \ {<<"A">>},
          canary \in BOOLEAN :
          \E x0 \in {Handed(body)} :
             \E x \in {lwan_response(x0, status, canary, 0)} :
                FramerCall("lwan_response", status, NULL, x0, x, TRUE)

SetChunked ==
    /\ CanCall
    /\ \E status \in {HTTP_OK, HTTP_NOT_AUTHORIZED}, canary \in BOOLEAN :
          \E x0 \in {Handed(request.buffer)} :
             \E r \in {lwan_response_set_chunked(x0, status, canary)} :
                FramerCall("lwan_response_set_chunked", status, NULL, x0,
                           r.x, r.ret)

SetEventStream ==
    /\ CanCall
    /\ \E status \in {HTTP_OK}, canary \in BOOLEAN :
          \E x0 \in {Handed(request.buffer)} :
             \E r \in {lwan_response_set_event_stream(x0, status, canary)} :
                FramerCall("lwan_response_set_event_stream", status, NULL,
                           x0, r.x, r.ret)

SendChunk ==
    /\ CanCall
    /\ \E body \in Bodies, canary \in BOOLEAN :
          \E x0 \in {Handed(body)} :
             \E x \in {lwan_response_send_chunk(x0, canary)} :
                FramerCall("lwan_response_send_chunk", 0, NULL, x0, x, TRUE)

SendEvent ==
    /\ CanCall
    /\ \E event \in {NULL, "ping"}, body \in {<<"A">>}, canary \in BOOLEAN :
          \E x0 \in {Handed(body)} :
             \E x \in {lwan_response_send_event(x0, event, canary)} :
                FramerCall("lwan_response_send_event", 0, event, x0, x, TRUE)

NextResp ==
    \/ Respond
    \/ SetChunked
    \/ SetEventStream
    \/ SendChunk
    \/ SendEvent

SpecResp == InitResp /\ [][NextResp]_vars

(* ------------------- the chunk size of send_chunk --------------------- *)
\* the sizes of size_t followed, in bytes: ILP32 and LP64
SizeofSizeT == {4, SIZEOF_SIZE_T}

\* A size_t value is kept as its bytes, the most significant first.
\* n / 16
shift_right_4(bytes) ==
    [i \in 1..Len(bytes) |->
        (bytes[i] \div 16) + (IF i = 1 THEN 0 ELSE (bytes[i - 1] % 16) * 16)]

is_zero(bytes) == \A i \in 1..Len(bytes) : bytes[i] = 0

\* "%zx" of a size_t: the digit of n % 16 after the digits of n / 16
RECURSIVE zx(_)
zx(bytes) ==
    LET low == HexDigits[(bytes[Len(bytes)] % 16) + 1]
        rest == shift_right_4(bytes)
    IN IF is_zero(rest) THEN <<low>> ELSE zx(rest) \o <<low>>

\* the result of snprintf(chunk_size, sizeof(chunk_size), "%zx\r\n",
\* buffer_len): the characters of the whole output, the NUL not counted
snprintf_chunk_size(bytes) == Len(zx(bytes)) + Len("\r\n")

\* the lengths followed for a size_t of w bytes: 0, and the values whose
\* leading byte is 1, 15, 16 or 255, at every position, with the bytes
\* below it all 0 or all 255 (SIZE_MAX among them)
Lengths(w) ==
    {[i \in 1..w |-> 0]}
    \cup {[i \in 1..w |-> IF i < p THEN 0 ELSE IF i = p THEN lead ELSE fill] :
            p \in 1..w, lead \in {1, 15, 16, 255}, fill \in {0, 255}}

InitChunk ==
    /\ \E w \in SizeofSizeT :
          \E l \in Lengths(w) :
             chunk = [state |-> "ready", size_t_bytes |-> w, length |-> l,
                      converted_len |-> 0, abort |-> FALSE]
    /\ request = NoRequest
    /\ headers_buf_size = 0
    /\ header = NoHeader
    /\ io = <<>>
    /\ calls = <<>>
    /\ crash = "none"
    /\ defer = <<>>
    /\ yield_value = 0
    /\ ended = FALSE
    /\ context = NoContext
    /\ running = FALSE
    /\ frame = NoFrame
    /\ freed = FALSE
    /\ fault = "none"
    /\ gens = {}
    /\ nreg = 0
    /\ registered = {}
    /\ log = <<>>
    /\ cap = [g \in {} |-> <<>>]
    /\ op = [name |-> "none", gen |-> 0, val |-> 0, from |-> "none"]
    /\ primed = [func |-> "none", data |-> "none", resumed |-> FALSE]
    /\ yield_ret = 0
    /\ resume_ret = 0
    /\ budget = [reg |-> 0, yield |-> 0, val |-> 0]

\* lwan_response_send_chunk from the snprintf to the test of its result:
\* coro_yield(CONN_CORO_ABORT) when converted_len < 0 or converted_len >=
\* sizeof(chunk_size)
FormatChunkSize ==
    /\ chunk.state = "ready"
    /\ LET converted_len == snprintf_chunk_size(chunk.length)
       IN chunk' = [chunk EXCEPT
                      !.state = "done",
                      !.converted_len = converted_len,
                      !.abort = converted_len < 0
                                \/ converted_len
                                     >= sizeof_chunk_size(chunk.size_t_bytes)]
    /\ UNCHANGED <<io, calls, crash, hdr_vars, coro_vars>>

NextChunk == FormatChunkSize

SpecChunk == InitChunk /\ [][NextChunk]_vars

(* ====================== coroutine runtime: claims ===================== *)
\* The callbacks a step called: what it added to the log.
Ran == SubSeq(log', Len(log) + 1, Len(log'))

RECURSIVE Descending(_)
\* The registered actions of S, the last registered first.
Descending(S) ==
    IF S = {} THEN <<>>
    ELSE LET m == CHOOSE e \in S : \A f \in S : f.data1 <= e.data1
         IN <<m>> \o Descending(S \ {m})

Range(seq) == {seq[k] : k \in 1..Len(seq)}

\* How many times the action registered with data1 = id has been called.
TimesRun(id) == Cardinality({k \in 1..Len(log) : log[k].data1 = id})

IsResume(o) == o.name \in {"coro_resume", "coro_resume_value"}

\* C1 (Deferred-LIFO law): when coro_free, or coro_deferred_run(coro, 0),
\* follows a sequence of successful registrations f1, ..., fN (nothing was
\* run before), the step calls exactly fN, ..., f1 in that order, each with
\* the func, data1 and data2 it was registered with.
C1_DeferredLIFO ==
    [][ ( /\ \/ op'.name = "coro_free"
             \/ op'.name = "coro_deferred_run" /\ op'.gen = 0
          /\ log = <<>> )
        => Ran = Descending(registered) ]_vars

C1_Witness ==
    /\ op.name = "coro_free"
    /\ Len(log) = 3
    /\ log = Descending(registered)
    /\ \E k \in 1..3 : log[k].data2 # NULL

\* C2 (Generation rollback): coro_deferred_run(coro, g), for a g captured
\* by coro_deferred_get_generation with no rollback below it since, calls
\* exactly the actions deferred above g, the last first, calls none of the
\* actions that were registered when g was captured, and leaves the array
\* (length and entries) as it was when g was captured.
C2_GenerationRollback ==
    [][ (op'.name = "coro_deferred_run" /\ op'.gen \in DOMAIN cap)
        => LET g == op'.gen
           IN /\ fault' = "none"
              /\ Ran = Reverse(SubSeq(defer, g + 1, Len(defer)))
              /\ Range(Ran) \cap Range(cap[g]) = {}
              /\ Len(defer') = g
              /\ defer' = cap[g] ]_vars

C2_Witness ==
    /\ op.name = "coro_deferred_run"
    /\ op.gen = 1
    /\ Len(defer) = 1
    /\ Len(log) = 2
    /\ log[1].data1 = 3
    /\ log[2].data1 = 2
    /\ defer[1].data1 = 1

\* C3 (Cleanup on free), as claimed: once the coroutine has been freed or
\* reset, every action coro_defer_any stored has been called exactly once.
C3_ExactlyOnce ==
    (freed \/ op.name = "coro_reset")
        => \A e \in registered : TimesRun(e.data1) = 1

\* C4 (Resume/yield duality): coro_resume_value(coro, v) on a coroutine
\* suspended in coro_yield makes that coro_yield return v in the handler,
\* and the coro_resume that entered the handler returns the value w of the
\* handler's next coro_yield(coro, w).
C4_ResumeYieldDuality ==
    /\ (op.name = "coro_resume_value" /\ running /\ frame.via = "coro_yield")
           => yield_ret = op.val
    /\ op.name = "coro_yield" => (resume_ret = op.val /\ ~running)

C4_Witness ==
    /\ op.name = "coro_resume_value"
    /\ running
    /\ frame.via = "coro_yield"
    /\ frame.pos = 2
    /\ op.val = 1
    /\ yield_ret = 1
    /\ resume_ret = 0

\* C5 (Terminal-once): ended becomes true only when the handler returns,
\* and every return of the handler sets it; it becomes false only by
\* coro_reset; the handler never runs while ended is set, and a coro_resume
\* or coro_resume_value of an ended coroutine fails its assertion instead of
\* entering the handler.
C5_TerminalOnce ==
    [][ /\ (ended' /\ ~ended) => op'.name = "return"
        /\ (ended /\ ~ended') => op'.name = "coro_reset"
        /\ op'.name = "return" => (ended' /\ ~ended /\ ~running')
        /\ ended' => ~running'
        /\ (ended /\ IsResume(op')) => (fault' = "assert" /\ ~running' /\ ended')
      ]_vars

C5_Witness ==
    /\ ended
    /\ fault = "assert"
    /\ IsResume(op)
    /\ op.from = "ended"

\* C6: coro_reset(coro, handler, data), on a fresh, suspended or ended
\* coroutine, calls all pending deferred actions, the last registered
\* first, leaves the array empty and ended false; and the first coro_resume
\* after it starts handler at its beginning with data, not at the previous
\* handler's last coro_yield.
C6_Reset ==
    [][ /\ op'.name = "coro_reset"
           => /\ Ran = Reverse(defer)
              /\ defer' = <<>>
              /\ ~ended'
              /\ ~running'
        /\ (IsResume(op') /\ ~primed.resumed)
           => /\ running'
              /\ frame' = [func |-> primed.func, data |-> primed.data,
                           pos |-> 0, via |-> "coro_entry_point"]
      ]_vars

C6_Witness ==
    /\ op.name = "coro_reset"
    /\ op.from = "suspended"
    /\ Len(log) >= 2
    /\ log[1].data1 > log[2].data1
    /\ defer = <<>>
    /\ context = entry_context(primed.func, primed.data)


(* ===================== header assembly: claims ======================== *)
\* header assembly returned a header block
Returned == header.state = "done" /\ header.fault = "none" /\ header.ret > 0

\* the lines of the header block with the key K, in their order
LinesOf(K) == SelectSeq(header.lines, LAMBDA l : l.key = K)

\* the additional headers of the request with the key K, in their order
UserOf(K) == SelectSeq(request.headers.list, LAMBDA h : h.key = K)

\* the first loop over the additional headers runs
Copied == request.status < HTTP_BAD_REQUEST /\ ~request.headers.null

\* C7 as stated: a returned header block contains exactly one Server, one
\* Date, one Expires and one Content-Type line, whatever the status, the
\* flags and the additional headers.
C7_ExactlyOneEach ==
    Returned => \A K \in {"Server", "Date", "Expires", "Content-Type"} :
                    Len(LinesOf(K)) = 1

\* C7 amended: a returned header block contains exactly one Server line;
\* one Date (Expires) line, unless the additional headers are copied and
\* hold that key, and then one line for each time they hold it; one
\* Content-Type line, and one more for each Content-Type key among copied
\* additional headers.
C7_LineCounts ==
    Returned =>
       /\ Len(LinesOf("Server")) = 1
       /\ \A K \in {"Date", "Expires"} :
             Len(LinesOf(K)) = IF Copied /\ Len(UserOf(K)) >= 1
                               THEN Len(UserOf(K)) ELSE 1
       /\ Len(LinesOf("Content-Type"))
             = 1 + (IF Copied THEN Len(UserOf("Content-Type")) ELSE 0)

C7_Witness ==
    /\ Returned
    /\ request.cors
    /\ Copied
    /\ Len(UserOf("Server")) = 1
    /\ Len(UserOf("Date")) = 1
    /\ Len(LinesOf("Server")) = 1
    /\ Len(LinesOf("Date")) = 1
    /\ Len(LinesOf("Expires")) = 1
    /\ Len(LinesOf("Content-Type")) = 1

\* the value the Content-Length line of header assembly carries
FramingLength ==
    uint_to_string(IF request.callback THEN request.content_length
                   ELSE request.body_len)

\* C8 as stated: the header block contains a Content-Length line if and
\* only if neither CHUNKED nor NO_CONTENT_LENGTH is set; with CHUNKED it
\* contains Transfer-Encoding: chunked instead; a Content-Length line
\* carries the callback's hint if there is a callback, else the body length.
C8_Framing ==
    Returned =>
       /\ (Len(LinesOf("Content-Length")) >= 1)
             <=> (~request.chunked /\ ~request.no_content_length)
       /\ request.chunked =>
             \E k \in 1..Len(header.lines) :
                header.lines[k] = Line("Transfer-Encoding", "chunked", "server")
       /\ \A k \in 1..Len(header.lines) :
             header.lines[k].key = "Content-Length"
                => header.lines[k].val = FramingLength

\* the Content-Length lines header assembly made itself
OwnContentLength ==
    SelectSeq(LinesOf("Content-Length"), LAMBDA l : l.origin = "server")

\* C8 amended: header assembly makes a Content-Length line of its own if
\* and only if neither CHUNKED nor NO_CONTENT_LENGTH is set, exactly one,
\* carrying the callback's hint if there is a callback, else the body
\* length; with CHUNKED it makes Transfer-Encoding: chunked instead; every
\* other Content-Length line of the block is an additional header copied
\* as it is, so that without such a key there is none.
C8_OwnFraming ==
    Returned =>
       /\ Len(OwnContentLength)
             = IF ~request.chunked /\ ~request.no_content_length THEN 1 ELSE 0
       /\ \A k \in 1..Len(OwnContentLength) :
             OwnContentLength[k].val = FramingLength
       /\ request.chunked <=>
             \E k \in 1..Len(header.lines) :
                header.lines[k] = Line("Transfer-Encoding", "chunked", "server")
       /\ Len(LinesOf("Content-Length"))
             = Len(OwnContentLength)
               + (IF Copied THEN Len(UserOf("Content-Length")) ELSE 0)

C8_Witness ==
    /\ Returned
    /\ ~request.chunked
    /\ ~request.no_content_length
    /\ request.callback
    /\ request.body_len # request.content_length
    /\ LinesOf("Content-Length")
          = <<Line("Content-Length", uint_to_string(request.content_length),
                   "server")>>

\* exactly one Server line, the product's
OneProductServer == LinesOf("Server") = <<Line("Server", "lwan", "server")>>

\* C9 as stated: when the additional headers hold a key Date, Expires or
\* Server then, for every status, the block holds exactly one line of a
\* Date or Expires key they hold, carrying the user's value, and exactly
\* one Server line, carrying the product's value.
C9_UserOverrideAnyStatus ==
    (Returned /\ \E K \in {"Date", "Expires", "Server"} : Len(UserOf(K)) >= 1)
    => /\ OneProductServer
       /\ \A K \in {"Date", "Expires"} :
             Len(UserOf(K)) >= 1 =>
                /\ Len(LinesOf(K)) = 1
                /\ LinesOf(K)[1].origin = "user"
                /\ \E k \in 1..Len(UserOf(K)) :
                      LinesOf(K)[1].val = UserOf(K)[k].value

\* C9 amended: when the additional headers hold a key Date, Expires or
\* Server, the block holds exactly one Server line, the product's; for a
\* status below 400 its lines of a Date or Expires key they hold are the
\* user's, one for each time the key is held, in order, and none is made by
\* header assembly; for a status of 400 or more the additional Date and
\* Expires headers are left out and the one line is header assembly's own.
C9_UserOverride ==
    (Returned /\ \E K \in {"Date", "Expires", "Server"} : Len(UserOf(K)) >= 1)
    => /\ OneProductServer
       /\ \A K \in {"Date", "Expires"} :
             Len(UserOf(K)) >= 1 =>
                IF request.status < HTTP_BAD_REQUEST
                THEN /\ Len(LinesOf(K)) = Len(UserOf(K))
                     /\ \A k \in 1..Len(LinesOf(K)) :
                           LinesOf(K)[k] = Line(K, UserOf(K)[k].value, "user")
                ELSE /\ Len(LinesOf(K)) = 1
                     /\ LinesOf(K)[1].origin = "server"

C9_Witness ==
    /\ Returned
    /\ request.status = HTTP_OK
    /\ Len(request.headers.list) = 2
    /\ request.headers.list[1].key = "Date"
    /\ request.headers.list[2].key = "Server"
    /\ LinesOf("Date") = <<Line("Date", "u1", "user")>>
    /\ OneProductServer

\* the length of the header of the request in a buffer large enough
FullHeaderLength ==
    lwan_prepare_response_header(request, request.status,
                                 2 * MaxBuf + headers_buf_size).ret

\* C10, the part about the result: header assembly returns 0 whenever the
\* full header would exceed the buffer size.
C10_ZeroOnOverflow ==
    (header.state = "done" /\ header.fault = "none"
       /\ FullHeaderLength > headers_buf_size)
    => header.ret = 0

\* C10: header assembly returns 0 whenever the full header would exceed
\* the buffer size S, and on every path no byte is written at an index
\* >= S, the unchecked writes around an additional header's key included.
C10_OverflowSafety ==
    (header.state = "done" /\ header.fault = "none")
    => /\ FullHeaderLength > headers_buf_size => header.ret = 0
       /\ header.max_written < headers_buf_size

(* ========================= response framer: claims ==================== *)
\* what reached the socket, in order: io without the yields
Wire == SelectSeq(io, LAMBDA e : e.kind # "coro_yield")

RECURSIVE Concat(_)
Concat(seqs) == IF seqs = <<>> THEN <<>> ELSE Head(seqs) \o Concat(Tail(seqs))

\* the bytes after the header block, as a receiver reads them
BodyBytes(wire) == Concat([i \in 1..Len(wire) |-> wire[i].bytes])

HexValue(d) == CHOOSE v \in 0..15 : HexDigits[v + 1] = d

IsHex(digits) ==
    /\ digits # <<>>
    /\ \A i \in 1..Len(digits) : \E v \in 0..15 : HexDigits[v + 1] = digits[i]

RECURSIVE from_hex(_)
from_hex(digits) ==
    IF digits = <<>> THEN 0
    ELSE 16 * from_hex(SubSeq(digits, 1, Len(digits) - 1))
         + HexValue(digits[Len(digits)])

\* the position of the first CRLF of bytes, 0 if there is none
FirstCRLF(bytes) ==
    IF \E k \in 1..Len(bytes) : bytes[k] = CRLF
    THEN CHOOSE k \in 1..Len(bytes) :
             bytes[k] = CRLF /\ \A j \in 1..(k - 1) : bytes[j] # CRLF
    ELSE 0

NotChunked == [ok |-> FALSE, body |-> <<>>]

\* A receiver of Transfer-Encoding: chunked: the body a byte sequence
\* decodes to, if it is a sequence of chunks ended by the last chunk.
RECURSIVE dechunk(_)
dechunk(bytes) ==
    LET k == FirstCRLF(bytes)
        digits == SubSeq(bytes, 1, k - 1)
        size == from_hex(digits)
    IN IF k < 2 \/ ~IsHex(digits) THEN NotChunked
       ELSE IF size = 0
       THEN [ok |-> bytes = digits \o <<CRLF, CRLF>>, body |-> <<>>]
       ELSE IF Len(bytes) < k + size + 1 \/ bytes[k + size + 1] # CRLF
       THEN NotChunked
       ELSE LET rest == dechunk(SubSeq(bytes, k + size + 2, Len(bytes)))
            IN [ok |-> rest.ok,
                body |-> SubSeq(bytes, k + 1, k + size) \o rest.body]

\* bytes is hex(len(body)) CRLF body CRLF
IsChunkOf(bytes, body) ==
    LET k == Len(bytes) - Len(body) - 2
    IN /\ k >= 1
       /\ IsHex(SubSeq(bytes, 1, k))
       /\ from_hex(SubSeq(bytes, 1, k)) = Len(body)
       /\ SubSeq(bytes, k + 1, Len(bytes)) = <<CRLF>> \o body \o <<CRLF>>

HasLine(lines, key, val) ==
    \E i \in 1..Len(lines) : lines[i].key = key /\ lines[i].val = val

\* The handler made N send_chunk calls with a body and then one with an
\* empty buffer, and no other call.
ChunkedRun ==
    /\ calls # <<>>
    /\ \A i \in 1..Len(calls) : calls[i].op = "lwan_response_send_chunk"
    /\ \A i \in 1..(Len(calls) - 1) : calls[i].body # <<>>
    /\ calls[Len(calls)].body = <<>>

\* The wire holds the chunked header block, then one chunk per call in call
\* order, then the last chunk, and decodes to the bodies in call order.
ChunkedOnWire ==
    /\ Len(Wire) = Len(calls) + 1
    /\ Wire[1].part = "header"
    /\ HasLine(Wire[1].lines, "Transfer-Encoding", "chunked")
    /\ \A i \in 1..(Len(calls) - 1) :
          IsChunkOf(Wire[i + 1].bytes, calls[i].body)
    /\ Wire[Len(Wire)].bytes = <<"0", CRLF, CRLF>>
    /\ dechunk(BodyBytes(Wire)) =
          [ok |-> TRUE,
           body |-> Concat([i \in 1..Len(calls) |-> calls[i].body])]

ChunkedHeaderFits ==
    lwan_prepare_response_header([request EXCEPT !.chunked = TRUE], HTTP_OK,
                                 DEFAULT_BUFFER_SIZE).ret # 0

IoAfter(i) == IF i < Len(calls) THEN calls[i + 1].io_before ELSE Len(io)

\* what the i-th call handed to the I/O layer
IoOf(i) == SubSeq(io, calls[i].io_before + 1, IoAfter(i))

IsYield(e, value) == e.kind = "coro_yield" /\ e.value = value

Parts(entries) == {entries[k].part : k \in 1..Len(entries)}

IsFrameCall(i) ==
    calls[i].op \in {"lwan_response_send_chunk", "lwan_response_send_event"}

\* the frames of both streaming modes, the last chunk included
FrameParts == {"chunk", "last_chunk", "event"}

\* C12 as stated: after each send_chunk and each send_event call the body
\* buffer is cleared and the coroutine has yielded MAY_RESUME, and between
\* any two consecutive frames on the wire there was a MAY_RESUME yield.
C12_YieldAfterEachCall ==
    /\ \A i \in 1..Len(calls) :
          (IsFrameCall(i) /\ calls[i].crash = "none")
          => /\ calls[i].left = <<>>
             /\ IoOf(i) # <<>>
             /\ IsYield(IoOf(i)[Len(IoOf(i))], "CONN_CORO_MAY_RESUME")
    /\ \A j \in 1..Len(io), k \in 1..Len(io) :
          (j < k /\ io[j].part \in FrameParts /\ io[k].part \in FrameParts)
          => \E y \in (j + 1)..(k - 1) :
                 IsYield(io[y], "CONN_CORO_MAY_RESUME")

\* C12, amended: every chunk with a body and every event frame is followed
\* at once by a MAY_RESUME yield, before any further byte goes to the I/O
\* layer, and the send_chunk or send_event call that sent it has cleared the
\* body buffer when it returns; a send_chunk call that sends the last chunk
\* (empty buffer) does not yield, and a call whose header assembly fails
\* sends nothing, does not yield and leaves the buffer as it was.
C12_YieldAfterEachFrame ==
    /\ \A k \in 1..Len(io) :
          io[k].part \in {"chunk", "event"}
          => k < Len(io) /\ IsYield(io[k + 1], "CONN_CORO_MAY_RESUME")
    /\ \A i \in 1..Len(calls) :
          IsFrameCall(i)
          => /\ Parts(IoOf(i)) \cap {"chunk", "event"} # {}
                => calls[i].left = <<>>
             /\ "last_chunk" \in Parts(IoOf(i))
                => \A k \in 1..Len(IoOf(i)) : IoOf(i)[k].kind # "coro_yield"
             /\ (\E k \in 1..Len(calls[i].ev) :
                    calls[i].ev[k] \in {"assembly_0@set_chunked",
                                        "assembly_0@set_event_stream"})
                => IoOf(i) = <<>> /\ calls[i].left = calls[i].body

\* A chunk and an event frame were sent, each by its own call, and a later
\* call followed.
C12_Witness ==
    /\ Len(calls) = 3
    /\ calls[1].op = "lwan_response_send_chunk"
    /\ "chunk" \in Parts(IoOf(1))
    /\ calls[2].op = "lwan_response_send_event"
    /\ "event" \in Parts(IoOf(2))
    /\ calls[3].op = "lwan_response_send_chunk"
    /\ "last_chunk" \in Parts(IoOf(3))

\* the positions of io that carry a header block
HeaderBlocks == {k \in 1..Len(io) : io[k].lines # <<>>}

\* C13: across lwan_response, lwan_response_set_chunked,
\* lwan_response_set_event_stream, lwan_response_send_chunk and
\* lwan_response_send_event a request's header block goes on the wire at
\* most once; once it is sent SENT_HEADERS is set, and later header-sending
\* calls, a second lwan_response included, send no header bytes.
C13_HeadersAtMostOnce ==
    /\ Cardinality(HeaderBlocks) <= 1
    /\ HeaderBlocks # {} => request.sent_headers

\* the calls of the given name that returned true
Succeeded(name) ==
    {i \in 1..Len(calls) :
        calls[i].op = name /\ calls[i].ret /\ calls[i].crash = "none"}

\* the parts handed to the I/O layer after the i-th call returned
PartsAfter(i) == Parts(SubSeq(io, IoAfter(i) + 1, Len(io)))

\* C14: the streaming modes exclude each other: after a successful
\* lwan_response_set_chunked no event-stream frame and no whole response is
\* sent, and after a successful lwan_response_set_event_stream no
\* chunk-framed bytes are sent, whatever calls follow.
C14_ModesExclusive ==
    /\ \A i \in Succeeded("lwan_response_set_chunked") :
          PartsAfter(i) \cap {"event", "response"} = {}
    /\ \A i \in Succeeded("lwan_response_set_event_stream") :
          PartsAfter(i) \cap {"chunk", "last_chunk"} = {}

\* the positions of the wire that carry the last chunk, 0 CRLF CRLF
Terminators == {k \in 1..Len(Wire) : Wire[k].part = "last_chunk"}

\* C15: over any sequence of lwan_response_send_chunk and lwan_response
\* calls, the last chunk 0 CRLF CRLF is sent at most once and no byte
\* follows it.
C15_TerminatorOnce ==
    (\A i \in 1..Len(calls) :
        calls[i].op \in {"lwan_response_send_chunk", "lwan_response"})
    => /\ Cardinality(Terminators) <= 1
       /\ \A k \in Terminators : k = Len(Wire)

\* how many times the i-th call invoked the stream callback
CallbackCalls(i) ==
    Len(SelectSeq(calls[i].ev, LAMBDA e : e = "callback"))

RECURSIVE Sum(_)
Sum(ns) == IF ns = <<>> THEN 0 ELSE Head(ns) + Sum(Tail(ns))

\* the body the default error response carries for a status
ErrorBody(status) ==
    lwan_tpl_apply_with_buffer(Ctx(request, <<>>, "none"), status)
        .request.buffer

\* entries is the default error response for status and nothing else:
\* one header block for that status with Content-Type: text/html, and,
\* for a method with a body, the rendered error template.
IsDefaultResponse(entries, status) ==
    /\ Len(entries) = 1
    /\ entries[1].lines # <<>>
    /\ entries[1].status = status
    /\ HasLine(entries[1].lines, "Content-Type", "text/html")
    /\ entries[1].part = "response" => entries[1].bytes = ErrorBody(status)

\* C16: the stream callback is invoked at most once per request, and when
\* it returns a status >= 400 the nested lwan_response does not invoke it
\* again and the call sends the default error response for that status.
C16_CallbackOnce ==
    /\ Sum([i \in 1..Len(calls) |-> CallbackCalls(i)]) <= 1
    /\ \A i \in 1..Len(calls) :
          (CallbackCalls(i) > 0
             /\ request.callback_status >= HTTP_BAD_REQUEST)
          => IsDefaultResponse(IoOf(i), request.callback_status)

\* the activations of lwan_response in the i-th call
Activations(i) ==
    Len(SelectSeq(calls[i].ev, LAMBDA e : e = "lwan_response"))

\* C17, the part about the depth: lwan_response and lwan_default_response
\* call each other a bounded number of times, four activations of
\* lwan_response at most.
C17_BoundedDepth ==
    /\ crash # "stack_exhausted"
    /\ \A i \in 1..Len(calls) : Activations(i) <= 4

\* C17: every lwan_response call terminates: the recursion between
\* lwan_response and lwan_default_response has bounded depth and the call
\* ends with bytes sent, with an ignored call, or with a yield.
C17_RespondTerminates ==
    \A i \in 1..Len(calls) :
        calls[i].op = "lwan_response"
        => /\ Activations(i) <= 4
           /\ calls[i].crash = "none"
           /\ \/ IoOf(i) # <<>>
              \/ \E k \in 1..Len(calls[i].ev) : calls[i].ev[k] = "ignored"

\* the callers in which header assembly returned 0 during the i-th call
AssemblyFailures(i) ==
    {calls[i].ev[k] : k \in 1..Len(calls[i].ev)}
        \cap {"assembly_0@lwan_response", "assembly_0@set_chunked",
              "assembly_0@set_event_stream"}

\* C18: whenever header assembly returns 0 its caller, lwan_response,
\* lwan_response_set_chunked or lwan_response_set_event_stream, sends the
\* default 500 response and none of the partly assembled header bytes.
C18_Default500OnOverflow ==
    \A i \in 1..Len(calls) :
        AssemblyFailures(i) # {}
        => IsDefaultResponse(IoOf(i), HTTP_INTERNAL_ERROR)

(* ---------------------- header assembly: more claims ------------------ *)
CorsKeys == {"Access-Control-Allow-Origin", "Access-Control-Allow-Methods",
             "Access-Control-Allow-Credentials",
             "Access-Control-Allow-Headers"}

\* the place of a line in the order of the header block
Rank(l) ==
    IF l.origin = "status" THEN 1
    ELSE IF l.origin = "user" THEN 5
    ELSE IF l.key \in {"Transfer-Encoding", "Content-Length"} THEN 2
    ELSE IF l.key = "Content-Type" THEN 3
    ELSE IF l.key = "Connection" THEN 4
    ELSE IF l.key = "Date" THEN 6
    ELSE IF l.key = "Expires" THEN 7
    ELSE IF l.key \in CorsKeys THEN 8
    ELSE IF l.key = "Server" THEN 9
    ELSE 0

\* the lines of the header block of the given rank
Ranked(r) == SelectSeq(header.lines, LAMBDA l : Rank(l) = r)

\* C19: a returned header block has the fixed order status line, framing
\* line (if any), Content-Type, Connection, additional headers, Date,
\* Expires, the CORS lines (if ALLOW_CORS), Server; its last line is the
\* product's Server line, and no Server line of the user is in it.
C19_FixedOrder ==
    Returned =>
       /\ \A i \in 1..Len(header.lines) : Rank(header.lines[i]) \in 1..9
       /\ \A i \in 1..(Len(header.lines) - 1) :
             Rank(header.lines[i]) <= Rank(header.lines[i + 1])
       /\ Len(Ranked(1)) = 1
       /\ Len(Ranked(2))
             = (IF request.no_content_length /\ ~request.chunked THEN 0 ELSE 1)
       /\ Len(Ranked(3)) = 1
       /\ Len(Ranked(4)) = 1
       /\ Len(Ranked(6)) <= 1
       /\ Len(Ranked(7)) <= 1
       /\ Len(Ranked(8)) = (IF request.cors THEN 4 ELSE 0)
       /\ header.lines[Len(header.lines)] = Line("Server", "lwan", "server")
       /\ Len(Ranked(9)) = 1
       /\ \A i \in 1..Len(header.lines) :
             header.lines[i].key = "Server"
             => header.lines[i].origin = "server"

\* A block with a framing line, an additional header, the CORS lines and the
\* product's Server line, from a request whose user also supplied Server.
C19_Witness ==
    /\ Returned
    /\ request.cors
    /\ Copied
    /\ Len(UserOf("Server")) = 1
    /\ Len(UserOf("X-Custom")) = 1
    /\ Len(Ranked(2)) = 1
    /\ Len(Ranked(5)) = 1
    /\ Len(Ranked(6)) = 1
    /\ Len(Ranked(8)) = 4
    /\ header.lines[Len(header.lines)] = Line("Server", "lwan", "server")

(* ---------------------- coroutine runtime: more claims ---------------- *)
DeferOps == {"coro_defer", "coro_defer2", "coro_malloc", "coro_printf"}

\* the step is a registration whose coro_defer_array_append failed
AppendFailed ==
    /\ op'.name \in DeferOps
    /\ nreg' = nreg + 1
    /\ registered' = registered

\* the registrations that were dropped: asked for, never stored
Dropped == {id \in 1..nreg : \A e \in registered : e.data1 # id}

\* C20: when the append of a deferred action fails for lack of memory,
\* coro_defer and coro_defer2 return normally with the deferred array
\* unchanged; the dropped action is never called; and the actions
\* registered before are still called, the last registered first, by
\* coro_free, coro_reset and a rollback.
C20_FailedAppendIsDropped ==
    [][ /\ AppendFailed
           => /\ defer' = defer
              /\ log' = log
              /\ fault' = fault
              /\ ended' = ended /\ freed' = freed /\ running' = running
        /\ \A k \in 1..Len(log') : log'[k] \in registered'
        /\ op'.name \in {"coro_free", "coro_reset"} => Ran = Reverse(defer)
        /\ (op'.name = "coro_deferred_run" /\ op'.gen \in DOMAIN cap)
           => Ran = Reverse(SubSeq(defer, op'.gen + 1, Len(defer)))
        /\ (op'.name = "coro_free" /\ log = <<>>)
           => /\ Ran = Descending(registered)
              /\ \A id \in Dropped : TimesRun(id)' = 0
      ]_vars

\* The second of three registrations was dropped; coro_free then called the
\* third and the first, in that order.
C20_Witness ==
    /\ op.name = "coro_free"
    /\ nreg = 3
    /\ Dropped = {2}
    /\ Len(log) = 2
    /\ log[1].data1 = 3
    /\ log[2].data1 = 1

\* C21: coro_deferred_run(coro, g) terminates and calls only actions that
\* are registered at the time, for every g that
\* coro_deferred_get_generation returned earlier on the coroutine, a g
\* larger than the present number of actions (after a rollback or reset
\* below it) included.
C21_StaleGeneration ==
    [][ (op'.name = "coro_deferred_run" /\ op'.gen \in gens)
        => /\ fault' = "none"
           /\ Range(Ran) \subseteq Range(defer)
           /\ Len(defer') <= Len(defer) ]_vars

\* the step is a lwan_response_set_chunked or lwan_response_set_event_stream
\* call that returned false
SetReturnedFalse ==
    /\ Len(calls') = Len(calls) + 1
    /\ calls'[Len(calls')].op \in {"lwan_response_set_chunked",
                                   "lwan_response_set_event_stream"}
    /\ calls'[Len(calls')].crash = "none"
    /\ ~calls'[Len(calls')].ret

\* C22: a lwan_response_set_chunked or lwan_response_set_event_stream call
\* that returns false (headers already sent, or header assembly overflow)
\* sends no byte and leaves the flags CHUNKED, NO_CONTENT_LENGTH and
\* SENT_HEADERS and the MIME type as they were before the call, so that a
\* later lwan_response still takes the whole-response path.
C22_FailedSetLeavesRequest ==
    [][ SetReturnedFalse
        => /\ io' = io
           /\ request'.chunked = request.chunked
           /\ request'.no_content_length = request.no_content_length
           /\ request'.sent_headers = request.sent_headers
           /\ request'.mime_type = request.mime_type ]_vars

\* C23: header assembly never reads the additional-header list when the
\* request has none: for every status, 401 and its WWW-Authenticate branch
\* included, it assembles a complete header block without a read through
\* the absent list.
C23_NoReadOfAbsentList ==
    (header.state = "done" /\ request.headers.null)
    => /\ header.fault = "none"
       /\ headers_buf_size = MaxBuf => header.ret > 0

\* C24: when a deferred action registers a new deferred action while
\* coro_deferred_run, coro_reset or coro_free is unwinding, the new action
\* is called exactly once before the unwind is over, and no entry that was
\* pending is overwritten or skipped.
C24_NestedRegistration ==
    [][ (op'.name \in {"coro_deferred_run", "coro_reset", "coro_free"}
         /\ fault' = "none")
        => /\ \A e \in registered' \ registered :
                 Cardinality({k \in 1..Len(Ran) : Ran[k] = e}) = 1
           /\ \A k \in (op'.gen + 1)..Len(defer) : defer[k] \in Range(Ran)
      ]_vars

(* ------------------------ chunk size: claims -------------------------- *)
\* the value of a size_t kept as bytes
RECURSIVE ValueOf(_)
ValueOf(bytes) ==
    IF bytes = <<>> THEN 0
    ELSE 256 * ValueOf(SubSeq(bytes, 1, Len(bytes) - 1)) + bytes[Len(bytes)]

\* C25, the formatting: for the lengths of at most three significant bytes
\* the digits are those the framer's chunks carry, and read back as hex
\* they give the length.
C25_SameDigits ==
    (chunk.state # "none"
     /\ is_zero(SubSeq(chunk.length, 1, chunk.size_t_bytes - 3)))
    => /\ zx(chunk.length) = to_hex(ValueOf(chunk.length))
       /\ from_hex(zx(chunk.length)) = ValueOf(chunk.length)

\* C25: for every body length a size_t holds, the hexadecimal length, CRLF
\* and the NUL fit the chunk_size array of 3 * sizeof(size_t) + 2 bytes, so
\* that lwan_response_send_chunk never takes the branch of the
\* unrepresentable chunk length and never yields CONN_CORO_ABORT.
C25_ChunkSizeFits ==
    chunk.state = "done"
    => /\ chunk.converted_len + 1 <= sizeof_chunk_size(chunk.size_t_bytes)
       /\ chunk.converted_len = Len(zx(chunk.length)) + 2
       /\ Len(zx(chunk.length)) <= 2 * chunk.size_t_bytes
       /\ ~chunk.abort

\* SIZE_MAX of a 64-bit size_t was formatted: 16 digits, CRLF.
C25_Witness ==
    /\ chunk.state = "done"
    /\ chunk.size_t_bytes = SIZEOF_SIZE_T
    /\ chunk.length = [i \in 1..SIZEOF_SIZE_T |-> 255]
    /\ zx(chunk.length) = [i \in 1..16 |-> "f"]
    /\ chunk.converted_len = 18
    /\ ~chunk.abort

====
